---- MODULE Spec2Model ----
(***************************************************************************)
(* A model of src/landmark_pipeline.py: the photo pipeline of main (extract,*)
(* collect, order, caption, transform, render) and its pure helpers         *)
(* (keyword_rank, slug_to_caption, load_captions_csv, resize_for_web,       *)
(* apply_logo_watermark).                                                   *)
(*                                                                         *)
(* A Python str is modelled as a sequence of one-character strings, so that *)
(* substring tests, case conversion, splitting and comparison are computed  *)
(* character by character as Python computes them.                          *)
(***************************************************************************)
EXTENDS Integers, Sequences, FiniteSets, TLC

\* ------------------------------------------------------------------------
\* Characters and the str methods the program uses
\* ------------------------------------------------------------------------

UpperCase == <<"A","B","C","D","E","F","G","H","I","J","K","L","M",
               "N","O","P","Q","R","S","T","U","V","W","X","Y","Z">>
LowerCase == <<"a","b","c","d","e","f","g","h","i","j","k","l","m",
               "n","o","p","q","r","s","t","u","v","w","x","y","z">>
Digits == <<"0","1","2","3","4","5","6","7","8","9">>

\* The characters of the model in code-point order: ' ' < '-' < '.' < '/' <
\* '0'..'9' < 'A'..'Z' < '_' < 'a'..'z'.
CodeOrder == <<" ", "-", ".", "/">> \o Digits \o UpperCase \o <<"_">> \o LowerCase

IndexIn(c, seq) == CHOOSE i \in 1..Len(seq) : seq[i] = c
InSeq(c, seq) == \E i \in 1..Len(seq) : seq[i] = c

Characters == {CodeOrder[i] : i \in 1..Len(CodeOrder)}

\* The rank of a character in code-point order (what str comparison compares).
OrdOf == [c \in Characters |-> IndexIn(c, CodeOrder)]
Ord(c) == OrdOf[c]

UpperSet == {UpperCase[i] : i \in 1..Len(UpperCase)}
LowerSet == {LowerCase[i] : i \in 1..Len(LowerCase)}
IsUpperCh(c) == c \in UpperSet
IsLowerCh(c) == c \in LowerSet
IsCased(c) == IsUpperCh(c) \/ IsLowerCh(c)
LowerOf == [c \in Characters |-> IF c \in UpperSet THEN LowerCase[IndexIn(c, UpperCase)] ELSE c]
UpperOf == [c \in Characters |-> IF c \in LowerSet THEN UpperCase[IndexIn(c, LowerCase)] ELSE c]
LowerCh(c) == LowerOf[c]
UpperCh(c) == UpperOf[c]
IsSpaceCh(c) == c = " "

\* A sequence given as a function, as the tuple of its values.
AsTuple(f, n) == SubSeq(f, 1, n)

\* str.lower()
lower(s) == AsTuple([i \in 1..Len(s) |-> LowerCh(s[i])], Len(s))

\* k in s
Contains(k, s) ==
    \E i \in 0..(Len(s) - Len(k)) : SubSeq(s, i + 1, i + Len(k)) = k

\* s.endswith(suf), s.startswith(pre)
endswith(s, suf) ==
    Len(suf) <= Len(s) /\ SubSeq(s, Len(s) - Len(suf) + 1, Len(s)) = suf
startswith(s, pre) ==
    Len(pre) <= Len(s) /\ SubSeq(s, 1, Len(pre)) = pre

\* a < b on str: the first differing character decides, a proper prefix is less.
RECURSIVE StrLessFrom(_, _, _)
StrLessFrom(a, b, i) ==
    IF i > Len(b) THEN FALSE
    ELSE IF i > Len(a) THEN TRUE
    ELSE IF a[i] = b[i] THEN StrLessFrom(a, b, i + 1)
    ELSE Ord(a[i]) < Ord(b[i])
StrLess(a, b) == StrLessFrom(a, b, 1)

\* str.strip(): leading and trailing whitespace removed.
strip(s) ==
    LET keep == {i \in 1..Len(s) : ~IsSpaceCh(s[i])}
    IN IF keep = {} THEN <<>>
       ELSE LET lo == CHOOSE i \in keep : \A j \in keep : i <= j
                hi == CHOOSE i \in keep : \A j \in keep : j <= i
            IN SubSeq(s, lo, hi)

\* str.title(): a cased character is upper-cased when the character before it
\* is not cased (or there is none) and lower-cased otherwise.
title(s) ==
    AsTuple([i \in 1..Len(s) |->
                IF ~IsCased(s[i]) THEN s[i]
                ELSE IF i > 1 /\ IsCased(s[i - 1]) THEN LowerCh(s[i]) ELSE UpperCh(s[i])],
            Len(s))

\* re.sub(r"[_\-]+", " ", s): every maximal run of '_' and '-' becomes one space.
IsSepCh(c) == c = "_" \/ c = "-"
RECURSIVE SubRuns(_, _)
SubRuns(s, i) ==
    IF i > Len(s) THEN <<>>
    ELSE IF IsSepCh(s[i])
         THEN IF i > 1 /\ IsSepCh(s[i - 1]) THEN SubRuns(s, i + 1)
              ELSE <<" ">> \o SubRuns(s, i + 1)
         ELSE <<s[i]>> \o SubRuns(s, i + 1)
re_sub_runs(s) == SubRuns(s, 1)

\* os.path.basename(p): what follows the last '/'.
basename(p) ==
    LET sl == {i \in 1..Len(p) : p[i] = "/"}
    IN IF sl = {} THEN p
       ELSE LET last == CHOOSE i \in sl : \A j \in sl : j <= i
            IN SubSeq(p, last + 1, Len(p))

\* os.path.splitext(p)[0]: p is cut at its last '.', provided that dot lies in
\* the last path component and a character other than '.' precedes it there.
splitext_root(p) ==
    LET sl == {i \in 1..Len(p) : p[i] = "/"}
        sepIndex == IF sl = {} THEN 0 ELSE CHOOSE i \in sl : \A j \in sl : j <= i
        dots == {i \in 1..Len(p) : p[i] = "."}
        dotIndex == IF dots = {} THEN 0 ELSE CHOOSE i \in dots : \A j \in dots : j <= i
    IN IF dotIndex > sepIndex
          /\ \E k \in (sepIndex + 1)..(dotIndex - 1) : p[k] # "."
       THEN SubSeq(p, 1, dotIndex - 1)
       ELSE p

\* os.path.join(d, f) for a relative f.
path_join(d, f) == IF d = <<>> THEN f
                   ELSE IF d[Len(d)] = "/" THEN d \o f ELSE d \o <<"/">> \o f

\* ------------------------------------------------------------------------
\* Helper functions of the program
\* ------------------------------------------------------------------------

\* IMG_EXTS
IMG_EXTS == << <<".","j","p","g">>, <<".","j","p","e","g">>,
               <<".","p","n","g">>, <<".","w","e","b","p">> >>

\* The priority a name gets when no keyword matches it.
UnmatchedRank == 50

\* keyword_rank's table `order`.
KeywordOrder == <<
    << <<"e","x","t","e","r","i","o","r">>, 0 >>,
    << <<"f","r","o","n","t">>, 1 >>,
    << <<"a","e","r","i","a","l">>, 1 >>,
    << <<"l","i","v","i","n","g">>, 2 >>,
    << <<"f","i","r","e","p","l","a","c","e">>, 3 >>,
    << <<"k","i","t","c","h","e","n">>, 4 >>,
    << <<"d","i","n","i","n","g">>, 5 >>,
    << <<"b","e","d","r","o","o","m">>, 6 >>,
    << <<"b","a","t","h">>, 7 >>,
    << <<"d","e","c","k">>, 8 >>,
    << <<"d","o","c","k">>, 9 >>,
    << <<"l","a","k","e">>, 10 >>,
    << <<"t","w","i","l","i","g","h","t">>, 11 >>,
    << <<"l","o","c","a","l">>, 12 >> >>

MinOf(a, b) == IF a <= b THEN a ELSE b

\* keyword_rank(name): the loop over the table, rank = min(rank, r) on a hit.
RECURSIVE RankLoop(_, _, _)
RankLoop(n, j, rank) ==
    IF j > Len(KeywordOrder) THEN rank
    ELSE RankLoop(n, j + 1,
                  IF Contains(KeywordOrder[j][1], n)
                  THEN MinOf(rank, KeywordOrder[j][2]) ELSE rank)
\* keyword_rank without the lower-casing of the name.
keyword_rank_case_sensitive(name) == RankLoop(name, 1, UnmatchedRank)
keyword_rank(name) == RankLoop(lower(name), 1, UnmatchedRank)

\* str.capitalize(): the first character upper-cased, the others lower-cased.
capitalize(s) == AsTuple([i \in 1..Len(s) |-> IF i = 1 THEN UpperCh(s[i]) ELSE LowerCh(s[i])], Len(s))
\* slug_to_caption with capitalize() in the place of title().
slug_to_caption_capitalize(name) ==
    LET base == splitext_root(basename(name))
        cap == capitalize(strip(re_sub_runs(base)))
    IN IF ~endswith(cap, <<".">>) THEN cap \o <<".">> ELSE cap

\* slug_to_caption(name)
slug_to_caption(name) ==
    LET base == splitext_root(basename(name))
        cap == title(strip(re_sub_runs(base)))
    IN IF ~endswith(cap, <<".">>) THEN cap \o <<".">> ELSE cap

\* The room label of main: the same humanisation without the period.
room_label(base) == title(strip(re_sub_runs(splitext_root(base))))

\* load_captions_csv(path). The file is the sequence of its data rows, each
\* row <<filename, caption>> as csv.DictReader yields it; caps is the set of
\* <<key, text>> pairs of the dict, a later row replacing an earlier key.
RECURSIVE LoadRows(_, _, _)
LoadRows(rows, j, caps) ==
    IF j > Len(rows) THEN caps
    ELSE LET fn == strip(rows[j][1])
             tx == strip(rows[j][2])
         IN LoadRows(rows, j + 1,
                     IF fn # <<>> /\ tx # <<>>
                     THEN {e \in caps : e[1] # fn} \cup {<<fn, tx>>}
                     ELSE caps)
load_captions_csv(rows) == LoadRows(rows, 1, {})

\* caps.get(key, default)
caps_get(caps, key, default) ==
    IF \E e \in caps : e[1] = key
    THEN (CHOOSE e \in caps : e[1] = key)[2]
    ELSE default

\* list.sort() on str: insertion of each element before the first greater one.
RECURSIVE SortStr(_)
InsertStr(s, e) ==
    LET gt == {i \in 1..Len(s) : StrLess(e, s[i])}
        at == IF gt = {} THEN Len(s) + 1 ELSE CHOOSE i \in gt : \A j \in gt : i <= j
    IN SubSeq(s, 1, at - 1) \o <<e>> \o SubSeq(s, at, Len(s))
SortStr(s) == IF s = <<>> THEN <<>>
              ELSE InsertStr(SortStr(SubSeq(s, 1, Len(s) - 1)), s[Len(s)])

\* The walk filter of collect_images: an image extension, not an AppleDouble file.
is_image_file(f) ==
    /\ \E k \in 1..Len(IMG_EXTS) : endswith(lower(f), IMG_EXTS[k])
    /\ ~startswith(f, <<".","_">>)

\* collect_images(root): walk is what os.walk enumerates, as <<directory, file>>
\* pairs in enumeration order; the matching paths are joined, then sorted.
RECURSIVE WalkAppend(_, _)
WalkAppend(walkSeq, j) ==
    IF j > Len(walkSeq) THEN <<>>
    ELSE (IF is_image_file(walkSeq[j][2])
          THEN <<path_join(walkSeq[j][1], walkSeq[j][2])>> ELSE <<>>)
         \o WalkAppend(walkSeq, j + 1)
\* collect_images without imgs.sort().
collect_images_unsorted(walkSeq) == WalkAppend(walkSeq, 1)
collect_images(walkSeq) == SortStr(WalkAppend(walkSeq, 1))

\* The sort key of main: (keyword_rank(x), os.path.basename(x)).
sort_key(p) == <<keyword_rank(p), basename(p)>>
KeyLess(a, b) == a[1] < b[1] \/ (a[1] = b[1] /\ StrLess(a[2], b[2]))

\* list.sort(key=...): stable; the keys are computed once per element.
RECURSIVE SortKeyed(_)
InsertKeyed(s, e) ==
    LET gt == {i \in 1..Len(s) : KeyLess(e[1], s[i][1])}
        at == IF gt = {} THEN Len(s) + 1 ELSE CHOOSE i \in gt : \A j \in gt : i <= j
    IN SubSeq(s, 1, at - 1) \o <<e>> \o SubSeq(s, at, Len(s))
SortKeyed(ks) == IF ks = <<>> THEN <<>>
                 ELSE InsertKeyed(SortKeyed(SubSeq(ks, 1, Len(ks) - 1)), ks[Len(ks)])
RECURSIVE Decorate(_)
Decorate(s) == IF s = <<>> THEN <<>>
               ELSE << <<sort_key(Head(s)), Head(s)>> >> \o Decorate(Tail(s))
RECURSIVE Undecorate(_)
Undecorate(ks) == IF ks = <<>> THEN <<>>
                  ELSE <<Head(ks)[2]>> \o Undecorate(Tail(ks))
sort_by_key(s) == Undecorate(SortKeyed(Decorate(s)))

\* names = [ln.strip() for ln in f if ln.strip()]
RECURSIVE read_names(_)
read_names(lns) ==
    IF lns = <<>> THEN <<>>
    ELSE (IF strip(Head(lns)) # <<>> THEN <<strip(Head(lns))>> ELSE <<>>)
         \o read_names(Tail(lns))

\* ordered = [s for name in names for s in srcs if os.path.basename(s) == name]
RECURSIVE ordered_of(_, _)
ordered_of(names, s) ==
    IF names = <<>> THEN <<>>
    ELSE SelectSeq(s, LAMBDA p : basename(p) = Head(names))
         \o ordered_of(Tail(names), s)

\* remaining = [s for s in srcs if s not in ordered]
remaining_of(ordered, s) ==
    SelectSeq(s, LAMBDA p : ~\E k \in 1..Len(ordered) : ordered[k] = p)

\* Lines 245-253 of main: the final processing order. order_file is
\* [given |-> whether --order-file names an existing file, lines |-> its lines].
order_srcs(order_file, s) ==
    IF order_file.given
    THEN LET names == read_names(order_file.lines)
             ordered == ordered_of(names, s)
             remaining == sort_by_key(remaining_of(ordered, s))
         IN ordered \o remaining
    ELSE sort_by_key(s)

\* Image.resize(size): Pillow builds differ on a size with a zero side: the
\* call raises ValueError or returns an empty image.
pil_resize(size) ==
    IF size[1] < 1 \/ size[2] < 1
    THEN {[ok |-> FALSE, size |-> size], [ok |-> TRUE, size |-> size]}
    ELSE {[ok |-> TRUE, size |-> size]}

MaxOf(a, b) == IF a >= b THEN a ELSE b

\* resize_for_web that always fits the width to max_side.
resize_for_web_by_width(im, max_side) ==
    IF MaxOf(im[1], im[2]) <= max_side
    THEN {[ok |-> TRUE, size |-> im]}
    ELSE pil_resize(<<max_side, (im[2] * max_side) \div im[1]>>)

\* resize_for_web(im, max_side) on the size <<w, h>> of im: the outcomes of
\* the call, each [ok, size]; ok = FALSE is a raised exception.
resize_for_web(im, max_side) ==
    LET w == im[1]
        h == im[2]
    IN IF MaxOf(w, h) <= max_side
       THEN {[ok |-> TRUE, size |-> im]}
       ELSE IF w > h
            THEN pil_resize(<<max_side, (h * max_side) \div w>>)
            ELSE pil_resize(<<(w * max_side) \div h, max_side>>)

RECURSIVE Gcd(_, _)
Gcd(a, b) == IF b = 0 THEN a ELSE Gcd(b, a % b)
RECURSIVE IsPowerOfTwo(_)
IsPowerOfTwo(n) == n = 1 \/ (n > 1 /\ n % 2 = 0 /\ IsPowerOfTwo(n \div 2))

\* int(lg.height * scale) with scale = target_w / lg.width a float: the exact
\* quotient floored, except that when the quotient is an integer and the scale
\* has no exact binary value the product may fall just below it, and the
\* result be one less (49 * (1/49) < 1).
scaled_heights(lh, target_w, lw) ==
    LET q == (lh * target_w) \div lw
        exact == target_w = 0 \/ IsPowerOfTwo(lw \div Gcd(target_w, lw))
    IN IF (lh * target_w) % lw = 0 /\ ~exact
       THEN {q, q - 1} ELSE {q}

\* apply_logo_watermark with the margin added to the position.
apply_logo_watermark_margin_added(im, logo) ==
    LET target_w == im[1] \div 10
    IN UNION { LET x == im[1] - target_w + (im[1] \div 50)
                   y == im[2] - lgh + (im[2] \div 50)
               IN { [ok |-> r.ok /\ x >= 0 /\ y >= 0, size |-> im,
                     lg |-> r.size, at |-> <<x, y>>] :
                    r \in pil_resize(<<target_w, lgh>>) }
             : lgh \in scaled_heights(logo[2], target_w, logo[1]) }

\* apply_logo_watermark(im, logo, opacity) on sizes: the outcomes of the call,
\* each [ok, size (of the returned image), lg (the scaled logo), at (the paste
\* position)]; ok = FALSE is a raised exception.
apply_logo_watermark(im, logo) ==
    LET target_w == im[1] \div 10
    IN UNION { LET x == im[1] - target_w - (im[1] \div 50)
                   y == im[2] - lgh - (im[2] \div 50)
               IN { [ok |-> r.ok /\ x >= 0 /\ y >= 0, size |-> im,
                     lg |-> r.size, at |-> <<x, y>>] :
                    r \in pil_resize(<<target_w, lgh>>) }
             : lgh \in scaled_heights(logo[2], target_w, logo[1]) }

\* f"{i:02d}"
RECURSIVE Decimal(_)
Decimal(n) == IF n < 10 THEN <<Digits[n + 1]>>
              ELSE Decimal(n \div 10) \o <<Digits[(n % 10) + 1]>>
fmt_02d(n) == IF n < 10 THEN <<"0">> \o Decimal(n) ELSE Decimal(n)

\* str.replace(' ', '_')
replace_spaces(s) == AsTuple([k \in 1..Len(s) |-> IF s[k] = " " THEN "_" ELSE s[k]], Len(s))

\* ------------------------------------------------------------------------
\* Bounds and the inputs of a run
\* ------------------------------------------------------------------------

\* The most entries of the archive, and the most lines of the order file.
MaxFiles == 3
MaxOrderLines == 2

\* The entries an archive may hold, each <<directory inside the archive, file>>:
\* names with one keyword, with two, and with none, in the root and in
\* sub-directories (one of them named by a keyword), one name in two
\* directories, an AppleDouble file and a file that is no image.
ZipUniverse == {
    << <<>>, <<"E","x","t","e","r","i","o","r",".","J","P","G">> >>,
    << <<"b">>, <<"k","i","t","c","h","e","n",".","p","n","g">> >>,
    << <<"c">>, <<"k","i","t","c","h","e","n",".","p","n","g">> >>,
    << <<"f","r","o","n","t">>, <<"I","M","G","_","2",".","j","p","g">> >>,
    << <<>>, <<"A","_","k","i","t","c","h","e","n","_","e","x","t","e","r","i","o","r",".","j","p","g">> >>,
    << <<>>, <<".","_","a",".","j","p","g">> >>,
    << <<>>, <<"n",".","t","x","t">> >> }

\* The lines an order file may hold: a name shared by two entries, a name with
\* surrounding blanks (of an entry the archive may or may not hold), and a
\* blank line.
OrderLineUniverse == {
    <<"k","i","t","c","h","e","n",".","p","n","g">>,
    <<" ","E","x","t","e","r","i","o","r",".","J","P","G">>,
    <<" ">> }

\* The captions files of a run: none, one with usable and unusable rows, and
\* one with a row that lacks its caption cell.
CaptionFiles == {
    [given |-> FALSE, rows |-> <<>>],
    [given |-> TRUE, rows |-> <<
        << <<"k","i","t","c","h","e","n",".","p","n","g">>, <<" ","C","o","o","k"," ">> >>,
        << <<"I","M","G","_","2",".","j","p","g">>, <<" ">> >> >>],
    [given |-> TRUE, rows |-> << << <<"k","i","t","c","h","e","n",".","p","n","g">> >> >>] }

\* --outdir
OutDirs == { <<"o","u","t">>, <<"l","a","k","e">> }

\* The sizes an archive image and the logo may have.
ImageSizes == { <<5000, 3000>>, <<8, 6>> }
LogoSizes == { <<200, 100>> }

\* --max-web-width (its default)
DefaultMaxWebWidth == 2560

\* --property-name
PropertyName == <<"T","h","e"," ","L","a","n","d","m","a","r","k">>

SeqsUpTo(S, n) == UNION {[1..k -> S] : k \in 0..n}

OrderFiles == {[given |-> FALSE, lines |-> <<>>]}
              \cup {[given |-> TRUE, lines |-> l] : l \in SeqsUpTo(OrderLineUniverse, MaxOrderLines)}

\* ------------------------------------------------------------------------
\* The state of a run of main
\* ------------------------------------------------------------------------

VARIABLES
    pc,           \* the position of main
    outdir,       \* args.outdir
    zipFiles,     \* the entries of args.zip
    order_file,   \* args.order_file
    captions_csv, \* args.captions_csv
    tree,         \* the files under extract_dir, as <<directory, file>>
    discovered,   \* what collect_images returned
    srcs,         \* main's srcs
    caps,         \* main's caps
    logo,         \* the size of the opened logo
    rows,         \* main's rows
    full_set,     \* the files saved into full_dir
    web_set,      \* the files saved into web_dir
    thumbs,       \* the files saved into thumbs_dir
    docs,         \* the documents written, [path, rows]
    raisedAt,     \* the index of the image whose processing raised, else 0
    \* the pure-function harnesses
    fn,           \* the harness in use and its position
    arg,          \* the drawn input
    res           \* the result

pipeVars == <<pc, outdir, zipFiles, order_file, captions_csv, tree,
              discovered, srcs, caps, logo, rows, full_set, web_set, thumbs,
              docs, raisedAt>>
fnVars == <<fn, arg, res>>
vars == <<pipeVars, fnVars>>

\* work = ensure_dir(args.outdir) and the directories under it
extract_dir == path_join(outdir, <<"e","x","t","r","a","c","t","e","d">>)
full_dir == path_join(outdir, <<"p","h","o","t","o","s","_","f","u","l","l","_","r","e","s","_","w","a","t","e","r","m","a","r","k","e","d">>)
web_dir == path_join(outdir, <<"p","h","o","t","o","s","_","w","e","b","_","o","p","t","i","m","i","z","e","d","_","w","a","t","e","r","m","a","r","k","e","d">>)
thumbs_dir == path_join(outdir, <<"t","h","u","m","b","n","a","i","l","s">>)

\* The orders os.walk may enumerate a tree in: top-down, a directory's files
\* together, the files of the root before those of its sub-directories.
RECURSIVE Orderings(_)
Orderings(S) ==
    IF S = {} THEN {<<>>}
    ELSE UNION {{<<e>> \o q : q \in Orderings(S \ {e})} : e \in S}
IsWalkOrder(w, root) ==
    /\ \A a, b \in 1..Len(w) : (a < b /\ w[b][1] = root) => w[a][1] = root
    /\ \A a, b, c \in 1..Len(w) : (a < b /\ b < c /\ w[a][1] = w[c][1]) => w[b][1] = w[a][1]
WalkOrders(t) == LET root == extract_dir IN {w \in Orderings(t) : IsWalkOrder(w, root)}

NoPipeline ==
    /\ pc = "off" /\ outdir = <<>> /\ zipFiles = {}
    /\ order_file = [given |-> FALSE, lines |-> <<>>]
    /\ captions_csv = [given |-> FALSE, rows |-> <<>>]
    /\ tree = {} /\ discovered = <<>> /\ srcs = <<>> /\ caps = {}
    /\ logo = <<0, 0>> /\ rows = <<>> /\ full_set = <<>> /\ web_set = <<>>
    /\ thumbs = <<>> /\ docs = <<>> /\ raisedAt = 0
NoHarness == fn = "off" /\ arg = <<>> /\ res = <<>>

\* main after parse_args: nothing extracted, nothing written.
Init ==
    /\ pc = "extract"
    /\ outdir \in OutDirs
    /\ zipFiles \in {z \in SUBSET ZipUniverse : Cardinality(z) <= MaxFiles}
    /\ order_file \in OrderFiles
    /\ captions_csv \in CaptionFiles
    /\ tree = {} /\ discovered = <<>> /\ srcs = <<>> /\ caps = {}
    /\ logo = <<0, 0>> /\ rows = <<>> /\ full_set = <<>> /\ web_set = <<>>
    /\ thumbs = <<>> /\ docs = <<>> /\ raisedAt = 0
    /\ NoHarness

\* extract_zip(args.zip, extract_dir): every entry lands under extract_dir.
ExtractZip ==
    /\ pc = "extract"
    /\ tree' = {<<path_join(extract_dir, e[1]), e[2]>> : e \in zipFiles}
    /\ pc' = "collect"
    /\ UNCHANGED <<outdir, zipFiles, order_file, captions_csv, discovered,
                   srcs, caps, logo, rows, full_set, web_set, thumbs, docs, raisedAt>>
    /\ UNCHANGED fnVars

\* extract_zip raises (missing or corrupt archive): the run ends.
ExtractZipFails ==
    /\ pc = "extract"
    /\ pc' = "crashed"
    /\ UNCHANGED <<outdir, zipFiles, order_file, captions_csv, tree, discovered,
                   srcs, caps, logo, rows, full_set, web_set, thumbs, docs, raisedAt>>
    /\ UNCHANGED fnVars

\* srcs = collect_images(extract_dir)
CollectImages ==
    /\ pc = "collect"
    /\ \E w \in WalkOrders(tree) :
        LET imgs == collect_images(w)
        IN discovered' = imgs /\ srcs' = imgs
    /\ pc' = "check"
    /\ UNCHANGED <<outdir, zipFiles, order_file, captions_csv, tree,
                   caps, logo, rows, full_set, web_set, thumbs, docs, raisedAt>>
    /\ UNCHANGED fnVars

\* if not srcs: raise SystemExit("No images found in ZIP")
NoImagesExit ==
    /\ pc = "check"
    /\ srcs = <<>>
    /\ pc' = "fatal"
    /\ UNCHANGED <<outdir, zipFiles, order_file, captions_csv, tree, discovered,
                   srcs, caps, logo, rows, full_set, web_set, thumbs, docs, raisedAt>>
    /\ UNCHANGED fnVars

\* main without its `if not srcs` exit.
OrderImagesUnchecked ==
    /\ pc = "check"
    /\ srcs' = order_srcs(order_file, srcs)
    /\ pc' = "captions"
    /\ UNCHANGED <<outdir, zipFiles, order_file, captions_csv, tree, discovered,
                   caps, logo, rows, full_set, web_set, thumbs, docs, raisedAt>>
    /\ UNCHANGED fnVars

\* Lines 245-253: the order file, or the keyword sort.
OrderImages ==
    /\ pc = "check"
    /\ srcs # <<>>
    /\ srcs' = order_srcs(order_file, srcs)
    /\ pc' = "captions"
    /\ UNCHANGED <<outdir, zipFiles, order_file, captions_csv, tree, discovered,
                   caps, logo, rows, full_set, web_set, thumbs, docs, raisedAt>>
    /\ UNCHANGED fnVars

\* caps = load_captions_csv(args.captions_csv) if given and present, else {}.
\* A row without its caption cell makes row.get("caption", "") None, and
\* None.strip() raises.
captions_raise(csv) == csv.given /\ \E j \in 1..Len(csv.rows) : Len(csv.rows[j]) < 2
LoadCaptions ==
    /\ pc = "captions"
    /\ ~captions_raise(captions_csv)
    /\ caps' = IF captions_csv.given THEN load_captions_csv(captions_csv.rows) ELSE {}
    /\ pc' = "logo"
    /\ UNCHANGED <<outdir, zipFiles, order_file, captions_csv, tree, discovered,
                   srcs, logo, rows, full_set, web_set, thumbs, docs, raisedAt>>
    /\ UNCHANGED fnVars

LoadCaptionsFails ==
    /\ pc = "captions"
    /\ captions_raise(captions_csv)
    /\ pc' = "crashed"
    /\ UNCHANGED <<outdir, zipFiles, order_file, captions_csv, tree, discovered,
                   srcs, caps, logo, rows, full_set, web_set, thumbs, docs, raisedAt>>
    /\ UNCHANGED fnVars

\* logo = Image.open(args.logo), and the three output directories.
OpenLogo ==
    /\ pc = "logo"
    /\ logo' \in LogoSizes
    /\ pc' = "loop"
    /\ UNCHANGED <<outdir, zipFiles, order_file, captions_csv, tree, discovered,
                   srcs, caps, rows, full_set, web_set, thumbs, docs, raisedAt>>
    /\ UNCHANGED fnVars

OpenLogoFails ==
    /\ pc = "logo"
    /\ pc' = "crashed"
    /\ UNCHANGED <<outdir, zipFiles, order_file, captions_csv, tree, discovered,
                   srcs, caps, logo, rows, full_set, web_set, thumbs, docs, raisedAt>>
    /\ UNCHANGED fnVars

\* The names of one pass of the loop of main (lines 262-278).
new_name(i, base) == fmt_02d(i) \o <<"_">> \o base
thumb_path(i) == path_join(thumbs_dir, <<"t","h","u","m","b","_">> \o fmt_02d(i) \o <<".","j","p","g">>)
row_of(i, src) ==
    LET base == basename(src)
    IN <<i, thumb_path(i), room_label(base), caps_get(caps, base, slug_to_caption(base))>>

\* The steps of one pass that may raise, in the order they run.
PassSteps == <<"open", "watermark", "save_full", "resize", "save_web", "save_thumb">>
StepNo(st) == IndexIn(st, PassSteps)

\* One pass of the loop that completes: the image of index i is loaded,
\* watermarked and saved three times, and its row is appended.
TransformImage ==
    /\ pc = "loop"
    /\ LET i == Len(rows) + 1
           src == srcs[i]
       IN \E im \in ImageSizes :
          \E wm \in apply_logo_watermark(im, logo) :
          \E webim \in resize_for_web(wm.size, DefaultMaxWebWidth) :
            /\ wm.ok /\ webim.ok
            /\ full_set' = Append(full_set, path_join(full_dir, new_name(i, basename(src))))
            /\ web_set' = Append(web_set, path_join(web_dir, new_name(i, basename(src))))
            /\ thumbs' = Append(thumbs, thumb_path(i))
            /\ rows' = Append(rows, row_of(i, src))
            /\ pc' = IF i = Len(srcs) THEN "pdf" ELSE "loop"
    /\ UNCHANGED <<outdir, zipFiles, order_file, captions_csv, tree, discovered,
                   srcs, caps, logo, docs, raisedAt>>
    /\ UNCHANGED fnVars

\* A pass that catches what an image raises and leaves the loop for the renderers.
TransformImageCaught ==
    /\ pc = "loop"
    /\ raisedAt' = Len(rows) + 1
    /\ pc' = "pdf"
    /\ UNCHANGED <<outdir, zipFiles, order_file, captions_csv, tree, discovered,
                   srcs, caps, logo, rows, full_set, web_set, thumbs, docs>>
    /\ UNCHANGED fnVars

\* One pass of the loop that raises at step st (a decode error, a logo that
\* cannot be scaled or pasted, an unwritable path): what was saved before the
\* step stays, nothing is caught, and the run ends.
TransformImageFails ==
    /\ pc = "loop"
    /\ LET i == Len(rows) + 1
           src == srcs[i]
       IN \E im \in ImageSizes :
          \E wm \in apply_logo_watermark(im, logo) :
          \E webim \in resize_for_web(wm.size, DefaultMaxWebWidth) :
          \E k \in 1..Len(PassSteps) :
            /\ k > StepNo("watermark") => wm.ok
            /\ k > StepNo("resize") => webim.ok
            /\ k = StepNo("watermark") => ~wm.ok
            /\ k = StepNo("resize") => ~webim.ok
            /\ full_set' = IF k > StepNo("save_full")
                           THEN Append(full_set, path_join(full_dir, new_name(i, basename(src))))
                           ELSE full_set
            /\ web_set' = IF k > StepNo("save_web")
                          THEN Append(web_set, path_join(web_dir, new_name(i, basename(src))))
                          ELSE web_set
            /\ raisedAt' = i
            /\ pc' = "crashed"
    /\ UNCHANGED <<outdir, zipFiles, order_file, captions_csv, tree, discovered,
                   srcs, caps, logo, rows, thumbs, docs>>
    /\ UNCHANGED fnVars

\* The names of the three documents.
doc_path(suffix) == path_join(outdir, replace_spaces(PropertyName) \o suffix)
pdf_path == doc_path(<<"_","P","h","o","t","o","_","O","r","d","e","r","_","B","r","a","n","d","e","d",".","p","d","f">>)
html_path == doc_path(<<"_","P","h","o","t","o","_","O","r","d","e","r","_","B","r","a","n","d","e","d",".","h","t","m","l">>)
list_path == doc_path(<<"_","C","l","e","a","n","_","C","a","p","t","i","o","n","s","_","L","i","s","t",".","h","t","m","l">>)

\* A renderer writes its document from rows; a renderer that raises ends the run.
Render(at, path, next) ==
    /\ pc = at
    /\ docs' = Append(docs, [path |-> path, rows |-> rows])
    /\ pc' = next
    /\ UNCHANGED <<outdir, zipFiles, order_file, captions_csv, tree, discovered,
                   srcs, caps, logo, rows, full_set, web_set, thumbs, raisedAt>>
    /\ UNCHANGED fnVars
RenderFails(at) ==
    /\ pc = at
    /\ pc' = "crashed"
    /\ UNCHANGED <<outdir, zipFiles, order_file, captions_csv, tree, discovered,
                   srcs, caps, logo, rows, full_set, web_set, thumbs, docs, raisedAt>>
    /\ UNCHANGED fnVars

\* make_pdf(pdf, rows, brand, args.logo)
MakePdf == Render("pdf", pdf_path, "html")
MakePdfFails == RenderFails("pdf")
\* make_html(html, rows, brand, args.logo)
MakeHtml == Render("html", html_path, "list")
MakeHtmlFails == RenderFails("html")
\* make_list_html(lst, rows, brand, args.logo), then the completion message
MakeListHtml == Render("list", list_path, "done")
MakeListHtmlFails == RenderFails("list")

Next ==
    \/ ExtractZip \/ ExtractZipFails
    \/ CollectImages
    \/ NoImagesExit
    \/ OrderImages
    \/ LoadCaptions \/ LoadCaptionsFails
    \/ OpenLogo \/ OpenLogoFails
    \/ TransformImage \/ TransformImageFails
    \/ MakePdf \/ MakePdfFails
    \/ MakeHtml \/ MakeHtmlFails
    \/ MakeListHtml \/ MakeListHtmlFails

Spec == Init /\ [][Next]_vars

\* ------------------------------------------------------------------------
\* The final processing order
\* ------------------------------------------------------------------------

SetOf(seq) == {seq[k] : k \in 1..Len(seq)}
CountIn(seq, e) == Cardinality({k \in 1..Len(seq) : seq[k] = e})
FirstIndex(seq, e) == CHOOSE k \in 1..Len(seq) : seq[k] = e /\ \A j \in 1..(k - 1) : seq[j] # e

\* main has computed the final order (line 254), or has completed.
FinalOrder == pc = "captions" \/ pc = "done"

KITCHEN == <<"k","i","t","c","h","e","n">>
EXTERIOR == <<"e","x","t","e","r","i","o","r">>
\* The keyword occurs in the name, whatever the letter case.
HasKeyword(k, name) == Contains(k, lower(name))

\* The images under extract_dir, and their one ascending sequence.
ImagePaths == {path_join(e[1], e[2]) : e \in {t \in tree : is_image_file(t[2])}}
Ascending(S) == CHOOSE q \in Orderings(S) : \A a, b \in 1..Len(q) : a < b => StrLess(q[a], q[b])

\* C1 (as claimed): with an order list, the final sequence is a permutation of
\* the discovered images: each appears exactly once, those the list matches
\* come first in listed order, the others follow sorted by (keyword rank,
\* filename).
C1_OrderListPermutation ==
    (FinalOrder /\ order_file.given) =>
        LET names == read_names(order_file.lines)
            matched == {p \in SetOf(discovered) : basename(p) \in SetOf(names)}
            m == Cardinality(matched)
        IN /\ Len(srcs) = Len(discovered)
           /\ \A p \in SetOf(discovered) : CountIn(srcs, p) = 1
           /\ \A k \in 1..m : srcs[k] \in matched
           /\ \A a, b \in 1..m :
                a < b => FirstIndex(names, basename(srcs[a])) <= FirstIndex(names, basename(srcs[b]))
           /\ \A a, b \in (m + 1)..Len(srcs) :
                a < b => ~KeyLess(sort_key(srcs[b]), sort_key(srcs[a]))

C3_AscendingByFilenameRank ==
    (FinalOrder /\ ~order_file.given) =>
        \A a, b \in 1..Len(srcs) :
            a < b => ~KeyLess(<<keyword_rank(basename(srcs[b])), basename(srcs[b])>>,
                              <<keyword_rank(basename(srcs[a])), basename(srcs[a])>>)

\* C8: the final sequence is a function of the extracted image paths and the
\* order list alone: it is what lines 245-253 make of the ascending sequence
\* of the paths, whatever order the walk enumerated them in.
C8_OrderDeterministic ==
    FinalOrder => srcs = order_srcs(order_file, Ascending(ImagePaths))

\* A completed run over two images that tie on (keyword rank, base filename).
C8_Witness ==
    /\ pc = "done"
    /\ \E a, b \in 1..Len(srcs) : a # b /\ sort_key(srcs[a]) = sort_key(srcs[b])

\* ------------------------------------------------------------------------
\* The empty archive and the failure of an image
\* ------------------------------------------------------------------------

NothingWritten ==
    rows = <<>> /\ full_set = <<>> /\ web_set = <<>> /\ thumbs = <<>> /\ docs = <<>>

\* While collect_images has returned no image, main is at or before its check,
\* has exited with the fatal error, or had crashed in extract_zip; nothing is
\* transformed or written.
C4_NoImagesState ==
    discovered = <<>> =>
        /\ pc \in {"extract", "collect", "check", "fatal", "crashed"}
        /\ NothingWritten

\* C4: when collect_images returns no image, the next step of main is the
\* fatal exit, no image is transformed and no document written before it, and
\* no step follows it.
C4_NoImagesFatal ==
    /\ []C4_NoImagesState
    /\ [][(pc = "check" /\ srcs = <<>>) => pc' = "fatal"]_vars
    /\ [][pc # "fatal"]_vars

\* A run over an archive that holds files but no image, ended by the fatal exit.
C4_Witness == pc = "fatal" /\ tree # {} /\ discovered = <<>> /\ NothingWritten

\* The rows, the saved files and the documents of a run: one row per image
\* transformed, in sequence order; documents only over the rows of every image;
\* after the image of index raisedAt raised, the rows of the images before it
\* and no document.
C9_State ==
    /\ Len(rows) <= Len(srcs)
    /\ Len(thumbs) = Len(rows)
    /\ Len(web_set) \in {Len(rows), Len(rows) + 1}
    /\ Len(full_set) \in {Len(rows), Len(rows) + 1}
    /\ \A k \in 1..Len(rows) :
        /\ rows[k][1] = k
        /\ rows[k][2] = thumbs[k]
        /\ rows[k][3] = room_label(basename(srcs[k]))
    /\ \A k \in 1..Len(full_set) :
        full_set[k] = path_join(full_dir, new_name(k, basename(srcs[k])))
    /\ (pc \in {"pdf", "html", "list", "done"} \/ docs # <<>>) =>
        (Len(rows) = Len(srcs) /\ raisedAt = 0)
    /\ \A d \in 1..Len(docs) : docs[d].rows = rows
    /\ raisedAt # 0 =>
        /\ pc = "crashed"
        /\ Len(rows) = raisedAt - 1
        /\ Len(full_set) <= raisedAt
        /\ docs = <<>>

\* C9: images are transformed one at a time in sequence order; the run ends at
\* the first image that fails, with no later image transformed and no document
\* rendered; the renderers run only after every image has contributed its one
\* row, in sequence order.
C9_AbortOnFirstFailure ==
    /\ []C9_State
    /\ [][pc # "crashed"]_vars

\* A run of three images whose second image raised after the first was saved.
C9_Witness ==
    /\ pc = "crashed" /\ raisedAt = 2 /\ Len(srcs) = 3
    /\ Len(rows) = 1 /\ Len(full_set) = 2 /\ docs = <<>>

\* ------------------------------------------------------------------------
\* Runs of main over one image and many captions files
\* ------------------------------------------------------------------------

MaxCsvRows == 2

\* The cells of a captions file: names with and without surrounding blanks,
\* texts that are empty, blank, and usable with and without surrounding blanks.
CsvNames == { <<"a",".","j","p","g">>, <<" ","a",".","j","p","g"," ">>, <<"b",".","j","p","g">>, <<>> }
CsvTexts == { <<>>, <<" ">>, <<"X">>, <<" ","Y"," ">> }
CsvRowUniverse == {<<n, t>> : n \in CsvNames, t \in CsvTexts} \cup {<< <<"a",".","j","p","g">> >>}

CaptionZips == { {}, { << <<>>, <<"a",".","j","p","g">> >> },
                 { << <<>>, <<"a",".","j","p","g">> >>, << <<>>, <<"b","_","b",".","j","p","g">> >> } }

InitCaptions ==
    /\ pc = "extract"
    /\ outdir = <<"o","u","t">>
    /\ zipFiles \in CaptionZips
    /\ order_file = [given |-> FALSE, lines |-> <<>>]
    /\ captions_csv \in {[given |-> FALSE, rows |-> <<>>]}
                        \cup {[given |-> TRUE, rows |-> r] : r \in SeqsUpTo(CsvRowUniverse, MaxCsvRows)}
    /\ tree = {} /\ discovered = <<>> /\ srcs = <<>> /\ caps = {}
    /\ logo = <<0, 0>> /\ rows = <<>> /\ full_set = <<>> /\ web_set = <<>>
    /\ thumbs = <<>> /\ docs = <<>> /\ raisedAt = 0
    /\ NoHarness

SpecCaptions == InitCaptions /\ [][Next]_vars

\* The caption the captions file gives a base filename: the trimmed text of the
\* last row for that filename whose text is not blank, else the derived one.
CaptionOf(csv, base) ==
    LET hits == {j \in 1..Len(csv.rows) :
                    /\ Len(csv.rows[j]) = 2
                    /\ strip(csv.rows[j][1]) = base
                    /\ strip(csv.rows[j][2]) # <<>>}
    IN IF csv.given /\ hits # {}
       THEN strip(csv.rows[CHOOSE j \in hits : \A k \in hits : k <= j][2])
       ELSE slug_to_caption(base)

\* The caption of every row is the text the captions file has for the image's
\* base filename when it has a row for it with a text that is not blank, else
\* the caption derived from the filename; it is never empty.
RowCaptions ==
    \A k \in 1..Len(rows) :
        /\ rows[k][4] = CaptionOf(captions_csv, basename(srcs[k]))
        /\ rows[k][4] # <<>>

\* C6 (as claimed): for every captions file, the caption of every row is the
\* file's text for the image's base filename when it has one that is not blank,
\* else the derived caption, never empty; and a caption is always produced: the
\* caption step never raises.
C6_CaptionAlwaysProduced ==
    /\ []RowCaptions
    /\ [][pc = "captions" => pc' # "crashed"]_vars

\* ------------------------------------------------------------------------
\* The pure functions on drawn inputs
\* ------------------------------------------------------------------------

\* slug_to_caption on every string of at most MaxLen characters of SlugChars,
\* applied once and then to its own result.
MaxLen == 4
SlugChars == {"a", "A", "_", "-", " ", ".", "/"}

InitSlug ==
    /\ NoPipeline
    /\ fn = "slug"
    /\ arg \in SeqsUpTo(SlugChars, MaxLen)
    /\ res = <<>>
ApplySlug ==
    /\ fn = "slug"
    /\ res' = <<slug_to_caption(arg)>>
    /\ fn' = "slug_once"
    /\ UNCHANGED <<arg, pipeVars>>
ApplySlugAgain ==
    /\ fn = "slug_once"
    /\ res' = Append(res, slug_to_caption(res[1]))
    /\ fn' = "slug_twice"
    /\ UNCHANGED <<arg, pipeVars>>
NextSlug == ApplySlug \/ ApplySlugAgain
SpecSlug == InitSlug /\ [][NextSlug]_vars

\* resize_for_web on sizes with sides in 1..MaxDim or of the documented
\* examples, and limits in 1..MaxSide or the default.
MaxDim == 6
MaxSide == 6
ResizeSides == (1..MaxDim) \cup {1000, 2000, 3000, 5000}
ResizeLimits == (1..MaxSide) \cup {DefaultMaxWebWidth}

InitResize ==
    /\ NoPipeline
    /\ fn = "resize"
    /\ arg \in {<<w, h, m>> : w \in ResizeSides, h \in ResizeSides, m \in ResizeLimits}
    /\ res = <<>>
ApplyResize ==
    /\ fn = "resize"
    /\ \E r \in resize_for_web(<<arg[1], arg[2]>>, arg[3]) : res' = <<r>>
    /\ fn' = "resized"
    /\ UNCHANGED <<arg, pipeVars>>
NextResize == ApplyResize
SpecResize == InitResize /\ [][NextResize]_vars

\* apply_logo_watermark on images with sides in 1..MaxPx or wide enough for a
\* margin, and logos with sides in 1..MaxLogoPx.
MaxPx == 12
MaxLogoPx == 4
WatermarkSides == (1..MaxPx) \cup {50, 100}

InitLogo ==
    /\ NoPipeline
    /\ fn = "watermark"
    /\ arg \in {<<W, H, lw, lh>> : W \in WatermarkSides, H \in WatermarkSides,
                                   lw \in 1..MaxLogoPx, lh \in 1..MaxLogoPx}
    /\ res = <<>>
ApplyLogo ==
    /\ fn = "watermark"
    /\ \E r \in apply_logo_watermark(<<arg[1], arg[2]>>, <<arg[3], arg[4]>>) : res' = <<r>>
    /\ fn' = "watermarked"
    /\ UNCHANGED <<arg, pipeVars>>
NextLogo == ApplyLogo
SpecLogo == InitLogo /\ [][NextLogo]_vars

\* ------------------------------------------------------------------------
\* slug_to_caption, resize_for_web, apply_logo_watermark
\* ------------------------------------------------------------------------

\* Title-cased as str.istitle has it: unchanged by title(), some cased character.
IsTitled(c) == title(c) = c /\ \E k \in 1..Len(c) : IsCased(c[k])

\* C7 (as claimed): slug_to_caption returns every title-cased string that ends
\* with a period unchanged, and so is idempotent on derived captions.
C7_IdempotentOnTitled ==
    /\ (fn # "slug" /\ IsTitled(arg) /\ endswith(arg, <<".">>)) => res[1] = arg
    /\ (fn = "slug_twice" /\ IsTitled(res[1]) /\ endswith(res[1], <<".">>)) => res[2] = res[1]

\* A title-cased text without '_', '-' or '/', without blanks at its ends and
\* not ending with a period, followed by one period.
IsPlainCaption(c) ==
    /\ Len(c) >= 2
    /\ c[Len(c)] = "." /\ c[Len(c) - 1] # "."
    /\ LET body == SubSeq(c, 1, Len(c) - 1)
       IN /\ IsTitled(body)
          /\ strip(body) = body
          /\ \A k \in 1..Len(body) : body[k] \notin {"_", "-", "/"}

\* C7 (amended): slug_to_caption returns unchanged every caption that is a
\* title-cased text without underscore, hyphen or path separator, without
\* blanks at its ends and not ending with a period, followed by one period;
\* applying it to a derived caption of that form returns the same caption.
C7_IdempotentOnPlainCaption ==
    /\ (fn # "slug" /\ IsPlainCaption(arg)) => res[1] = arg
    /\ (fn = "slug_twice" /\ IsPlainCaption(res[1])) => res[2] = res[1]

\* slug_to_caption applied twice to a name it changes ("a-a"), the second
\* application returning the caption of the first ("A A.").
C7_Witness ==
    /\ fn = "slug_twice"
    /\ arg = <<"a", "-", "a">>
    /\ res = << <<"A", " ", "A", ".">>, <<"A", " ", "A", ".">> >>

C10_LogoAlwaysInside ==
    fn = "watermarked" =>
        LET W == arg[1]
            lw == arg[3]
            lh == arg[4]
            r == res[1]
        IN /\ r.lg[1] = W \div 10 /\ r.lg[1] >= 1
           /\ r.lg[2] = (lh * (W \div 10)) \div lw /\ r.lg[2] >= 1
           /\ r.at[1] >= 0 /\ r.at[2] >= 0
           /\ r.ok

\* C10 (amended): the scaled logo is floor(W/10) wide, at least 1 exactly when
\* W >= 10, and floor(lh * floor(W/10) / lw) high, or one less when that
\* quotient is a whole number; the paste position is x = W - logo_width -
\* floor(0.02*W), never negative, and y = H - logo_height - floor(0.02*H); when
\* W >= 10, the scaled logo is at least 1 high and logo_height + floor(0.02*H)
\* <= H, the composite succeeds with the logo inside the image.
C10_LogoInsideWhenItFits ==
    fn = "watermarked" =>
        LET W == arg[1]
            H == arg[2]
            lw == arg[3]
            lh == arg[4]
            r == res[1]
            q == (lh * (W \div 10)) \div lw
        IN /\ r.lg[1] = W \div 10
           /\ r.lg[1] >= 1 <=> W >= 10
           /\ r.lg[2] = q \/ (r.lg[2] = q - 1 /\ (lh * (W \div 10)) % lw = 0)
           /\ r.at[1] = W - r.lg[1] - (W \div 50) /\ r.at[1] >= 0
           /\ r.at[2] = H - r.lg[2] - (H \div 50)
           /\ (W >= 10 /\ r.lg[2] >= 1 /\ r.lg[2] + (H \div 50) <= H) =>
                /\ r.ok
                /\ r.at[2] >= 0
                /\ r.at[1] + r.lg[1] <= W
                /\ r.at[2] + r.lg[2] <= H

\* A 100x50 image and a 2x4 logo: the logo is scaled to 10x20 and pasted with
\* its margins of 2 and 1 inside the image.
C10_Witness ==
    /\ fn = "watermarked" /\ arg = <<100, 50, 2, 4>>
    /\ res[1].ok /\ res[1].lg = <<10, 20>> /\ res[1].at = <<88, 29>>

====
